---- MODULE Spec2Model ----
(***************************************************************************)
(* HexFileInfo: the record parser and chunk accumulator of processHexFile  *)
(* (src/HexFileInfo.cpp), as a state machine that reads one line per step. *)
(* A line is a sequence of one-character strings.  A 32-bit unsigned value *)
(* (an address, a decoded hex field) is the pair <<high half, low half>> of *)
(* its 16-bit halves, so that its arithmetic wraps at 2^32 as unsigned      *)
(* does; the checksum wraps at 2^8.  Sizes and counters grow by at most 255 *)
(* and 1 a line and stay plain integers within MaxLines.                    *)
(***************************************************************************)
EXTENDS Integers, Sequences, FiniteSets, TLC

\* ---------------------------------------------------------------- bounds
\* Longest input stream (number of lines getline delivers).
MaxLines == 4

\* ------------------------------------------------------ program constants
Half == 65536
Byte == 256
dataOffset == 9
minLineSize == dataOffset + 0 + 2
maxLineSize == minLineSize + 2 * 255
maxLen == 64
typeData == 0
typeEof == 1
typeEsa == 2
typeSsa == 3
typeEla == 4
typeSla == 5

FormatError == "Invalid data in hex file"
OverflowError == "Number too large"
ChecksumError == "Incorrect checksum"
SequenceError == "EOF record before end of file"
FileError == "Error reading file stdin"

\* ------------------------------------------------------------ characters
DecDigits == <<"0", "1", "2", "3", "4", "5", "6", "7", "8", "9">>
LowDigits == <<"a", "b", "c", "d", "e", "f">>
UpDigits == <<"A", "B", "C", "D", "E", "F">>

Range(s) == {s[i] : i \in 1..Len(s)}

IndexOf(s, c) == CHOOSE i \in 1..Len(s) : s[i] = c

isxdigit(c) == c \in Range(DecDigits) \cup Range(LowDigits) \cup Range(UpDigits)

tolower(c) == IF c \in Range(UpDigits) THEN LowDigits[IndexOf(UpDigits, c)] ELSE c

isprint(c) == c # "\t"

\* digit >= 'a' ? digit - 'a' + 10 : digit - '0', after tolower
digitValue(c) ==
    LET digit == tolower(c)
    IN  IF digit \in Range(LowDigits)
        THEN IndexOf(LowDigits, digit) - 1 + 10
        ELSE IndexOf(DecDigits, digit) - 1

\* std::span::subspan(offset, count), offset counted from 0
subspan(line, offset, count) == SubSeq(line, offset + 1, offset + count)

\* ------------------------------------------------- 32-bit unsigned values
toWord(n) == <<n \div Half, n % Half>>

\* the integer a word stands for, where it is below 2^31
value(w) == w[1] * Half + w[2]

\* w + n modulo 2^32, n an integer
plus(w, n) ==
    LET low == w[2] + (n % Half)
    IN  <<(w[1] + (n \div Half) + (low \div Half)) % Half, low % Half>>

\* v + w modulo 2^32
plusWord(v, w) ==
    LET low == v[2] + w[2]
    IN  <<(v[1] + w[1] + (low \div Half)) % Half, low % Half>>

\* w << 4 and w << 16 modulo 2^32
shiftLeft4(w) == <<(w[1] * 16 + (w[2] \div 4096)) % Half, (w[2] * 16) % Half>>

\* shiftLeft16 with the shift left out
shiftLeft16Unshifted(w) == w

shiftLeft16(w) == <<w[2], 0>>

less(v, w) == v[1] < w[1] \/ (v[1] = w[1] /\ v[2] < w[2])

RECURSIVE HexAccumulate(_, _)
\* n = n * 16 + digit over the first k digits
HexAccumulate(hex, k) ==
    IF k = 0 THEN toWord(0)
    ELSE plus(shiftLeft4(HexAccumulate(hex, k - 1)), digitValue(hex[k]))

\* fromHex: the value, or the message of the exception it throws
fromHex(hex) ==
    IF Len(hex) > 2 * 4 THEN [err |-> OverflowError, n |-> toWord(0)]
    ELSE IF \E i \in 1..Len(hex) : ~isxdigit(hex[i])
    THEN [err |-> FormatError, n |-> toWord(0)]
    ELSE [err |-> "", n |-> HexAccumulate(hex, Len(hex))]

makePrintable(str) ==
    LET strNew == IF Len(str) <= maxLen THEN str
                  ELSE SubSeq(str, 1, maxLen) \o <<"[", "e", "t", "c", "]">>
    IN  [i \in 1..Len(strNew) |-> IF isprint(strNew[i]) THEN strNew[i] ELSE "?"]

\* ------------------------------------------------------------ line parsing
RECURSIVE checksumLoopFromAddress(_, _, _)
\* checksumLoop begun at i = 3: the byte count is left out of the sum
checksumLoopFromAddress(line, i, checksum) ==
    IF i = 1 THEN checksumLoopFromAddress(line, 3, checksum)
    ELSE IF i < Len(line) - 1
    THEN LET pair == fromHex(subspan(line, i, 2))
         IN  IF pair.err # "" THEN [err |-> pair.err, n |-> checksum]
             ELSE checksumLoopFromAddress(line, i + 2, (checksum + value(pair.n)) % Byte)
    ELSE [err |-> "", n |-> checksum]

RECURSIVE checksumLoop(_, _, _)
\* for (i = 1; i < line.size() - 1; i += 2) checksum += fromHex(line.subspan(i, 2))
checksumLoop(line, i, checksum) ==
    IF i < Len(line) - 1
    THEN LET pair == fromHex(subspan(line, i, 2))
         IN  IF pair.err # "" THEN [err |-> pair.err, n |-> checksum]
             ELSE checksumLoop(line, i + 2, (checksum + value(pair.n)) % Byte)
    ELSE [err |-> "", n |-> checksum]

Rejected(message) ==
    [err |-> message, dataSize |-> 0, address |-> toWord(0), recordType |-> 0,
     base |-> toWord(0), start |-> toWord(0)]

\* sizeError without the size test of the linear start address record
sizeErrorSlaUnchecked(recordType, dataSize) ==
    CASE recordType = typeData -> FALSE
      [] recordType = typeEof -> dataSize # 0
      [] recordType = typeEsa -> dataSize # 2
      [] recordType = typeSsa -> dataSize # 4
      [] recordType = typeEla -> dataSize # 2
      [] recordType = typeSla -> FALSE
      [] OTHER -> TRUE

\* sizeError with a default case that breaks instead of throwing: a record
\* of a type other than the six is skipped
sizeErrorIgnoringUnknown(recordType, dataSize) ==
    CASE recordType = typeData -> FALSE
      [] recordType = typeEof -> dataSize # 0
      [] recordType = typeEsa -> dataSize # 2
      [] recordType = typeSsa -> dataSize # 4
      [] recordType = typeEla -> dataSize # 2
      [] recordType = typeSla -> dataSize # 4
      [] OTHER -> FALSE

\* The size the switch requires of each record type; data records take any.
sizeError(recordType, dataSize) ==
    CASE recordType = typeData -> FALSE
      [] recordType = typeEof -> dataSize # 0
      [] recordType = typeEsa -> dataSize # 2
      [] recordType = typeSsa -> dataSize # 4
      [] recordType = typeEla -> dataSize # 2
      [] recordType = typeSla -> dataSize # 4
      [] OTHER -> TRUE

\* Lines 164-186: the payload of an address record, decoded as its case of
\* the switch does; base is the new base address, start the start address.
decodePayload(line, dataSize, addr, recordType) ==
    LET dataSpan == subspan(line, dataOffset, 2 * dataSize)
        whole == fromHex(dataSpan)
        first == fromHex(subspan(line, dataOffset, 4))
        second == fromHex(subspan(line, dataOffset + 4, 4))
        Accepted(base, start) ==
            [err |-> "", dataSize |-> dataSize, address |-> addr,
             recordType |-> recordType, base |-> base, start |-> start]
    IN  CASE recordType = typeEsa ->
                 IF whole.err # "" THEN Rejected(whole.err)
                 ELSE Accepted(shiftLeft4(whole.n), toWord(0))
          [] recordType = typeEla ->
                 IF whole.err # "" THEN Rejected(whole.err)
                 ELSE Accepted(shiftLeft16(whole.n), toWord(0))
          [] recordType = typeSsa ->
                 IF first.err # "" THEN Rejected(first.err)
                 ELSE IF second.err # "" THEN Rejected(second.err)
                 ELSE Accepted(toWord(0), plusWord(shiftLeft4(first.n), second.n))
          [] recordType = typeSla ->
                 IF whole.err # "" THEN Rejected(whole.err)
                 ELSE Accepted(toWord(0), whole.n)
          [] OTHER -> Accepted(toWord(0), toWord(0))

\* parseLine with < for != in the test of the length against the byte count:
\* a line longer than its count says passes
parseLineAllowingLonger(line) ==
    IF Len(line) < minLineSize THEN Rejected(FormatError)
    ELSE IF Len(line) > maxLineSize THEN Rejected(FormatError)
    ELSE IF line[1] # ":" THEN Rejected(FormatError)
    ELSE LET count == fromHex(subspan(line, 1, 2))
             addr == fromHex(subspan(line, 3, 4))
             type == fromHex(subspan(line, 7, 2))
             sum == checksumLoop(line, 1, 0)
         IN  IF count.err # "" THEN Rejected(count.err)
             ELSE IF Len(line) < minLineSize + 2 * value(count.n) THEN Rejected(FormatError)
             ELSE IF addr.err # "" THEN Rejected(addr.err)
             ELSE IF type.err # "" THEN Rejected(type.err)
             ELSE IF sum.err # "" THEN Rejected(sum.err)
             ELSE IF sum.n # 0 THEN Rejected(ChecksumError)
             ELSE IF sizeError(value(type.n), value(count.n)) THEN Rejected(FormatError)
             ELSE decodePayload(line, value(count.n), addr.n, value(type.n))

\* Lines 139-186, all that the loop body computes from the line alone, in the
\* order the code evaluates it: framing, the three header fields, the
\* checksum, the size its type requires, its payload.  err is the message of
\* the first throw ("" if none), address the raw 16-bit address field.
parseLine(line) ==
    IF Len(line) < minLineSize THEN Rejected(FormatError)
    ELSE IF Len(line) > maxLineSize THEN Rejected(FormatError)
    ELSE IF line[1] # ":" THEN Rejected(FormatError)
    ELSE LET count == fromHex(subspan(line, 1, 2))
             addr == fromHex(subspan(line, 3, 4))
             type == fromHex(subspan(line, 7, 2))
             sum == checksumLoop(line, 1, 0)
         IN  IF count.err # "" THEN Rejected(count.err)
             ELSE IF Len(line) # minLineSize + 2 * value(count.n) THEN Rejected(FormatError)
             ELSE IF addr.err # "" THEN Rejected(addr.err)
             ELSE IF type.err # "" THEN Rejected(type.err)
             ELSE IF sum.err # "" THEN Rejected(sum.err)
             ELSE IF sum.n # 0 THEN Rejected(ChecksumError)
             ELSE IF sizeError(value(type.n), value(count.n)) THEN Rejected(FormatError)
             ELSE decodePayload(line, value(count.n), addr.n, value(type.n))

\* A subspan the loop body takes of the line; hex tells whether it is handed
\* to fromHex.
Span(offset, count, hex) == [offset |-> offset, count |-> count, hex |-> hex]

RECURSIVE checksumSpans(_, _)
\* the subspans of the checksum loop from position i on, up to its first throw
checksumSpans(line, i) ==
    IF i < Len(line) - 1
    THEN {Span(i, 2, TRUE)}
             \cup (IF fromHex(subspan(line, i, 2)).err # "" THEN {}
                   ELSE checksumSpans(line, i + 2))
    ELSE {}

\* the subspans the switch takes of an accepted address record (lines 164-186)
payloadSpans(line, dataSize, recordType) ==
    CASE recordType \in {typeEsa, typeEla, typeSla} -> {Span(dataOffset, 2 * dataSize, TRUE)}
      [] recordType = typeSsa ->
             {Span(dataOffset, 4, TRUE)}
                 \cup (IF fromHex(subspan(line, dataOffset, 4)).err # "" THEN {}
                       ELSE {Span(dataOffset + 4, 4, TRUE)})
      [] OTHER -> {}

\* Lines 139-186: every subspan the loop body takes of the line before it
\* throws or finishes, under the same tests, in the same order, as parseLine.
spansTaken(line) ==
    IF Len(line) < minLineSize \/ Len(line) > maxLineSize THEN {}
    ELSE IF line[1] # ":" THEN {}
    ELSE LET count == fromHex(subspan(line, 1, 2))
             addr == fromHex(subspan(line, 3, 4))
             type == fromHex(subspan(line, 7, 2))
             sum == checksumLoop(line, 1, 0)
             header == {Span(1, 2, TRUE), Span(3, 4, TRUE)}
         IN  IF count.err # "" THEN {Span(1, 2, TRUE)}
             ELSE IF Len(line) # minLineSize + 2 * value(count.n) THEN {Span(1, 2, TRUE)}
             ELSE IF addr.err # "" THEN header
             ELSE IF type.err # "" THEN header \cup {Span(7, 2, TRUE)}
             ELSE IF sum.err # "" \/ sum.n # 0
                     \/ sizeError(value(type.n), value(count.n))
             THEN header \cup {Span(7, 2, TRUE),
                               Span(dataOffset, 2 * value(count.n), FALSE)}
                         \cup checksumSpans(line, 1)
             ELSE header \cup {Span(7, 2, TRUE),
                               Span(dataOffset, 2 * value(count.n), FALSE)}
                         \cup checksumSpans(line, 1)
                         \cup payloadSpans(line, value(count.n), value(type.n))

\* ------------------------------------------------------------------ chunks
Chunk(address, size) == [address |-> address, size |-> size]

\* address + size, as unsigned computes it
End(c) == plus(c.address, c.size)

\* the overlap test of lines 197-198
overlaps(iter, chunk) == less(chunk.address, End(iter)) /\ less(iter.address, End(chunk))

\* checkMergeChunk with <= for the first ==: merges across a gap
checkMergeChunkAcrossGap(chunk, iter) ==
    IF ~less(chunk.address, End(iter))
    THEN [merged |-> TRUE,
          iter |-> Chunk(iter.address, iter.size + chunk.size)]
    ELSE IF End(chunk) = iter.address
    THEN [merged |-> TRUE,
          iter |-> Chunk(chunk.address, iter.size + chunk.size)]
    ELSE [merged |-> FALSE, iter |-> iter]

\* checkMergeChunk without the size added where chunk goes in front of iter
checkMergeChunkKeepingSize(chunk, iter) ==
    IF End(iter) = chunk.address
    THEN [merged |-> TRUE,
          iter |-> Chunk(iter.address, iter.size + chunk.size)]
    ELSE IF End(chunk) = iter.address
    THEN [merged |-> TRUE,
          iter |-> Chunk(chunk.address, iter.size)]
    ELSE [merged |-> FALSE, iter |-> iter]

\* checkMergeChunk: whether chunk was merged into iter, and iter afterwards
checkMergeChunk(chunk, iter) ==
    IF End(iter) = chunk.address
    THEN [merged |-> TRUE,
          iter |-> Chunk(iter.address, iter.size + chunk.size)]
    ELSE IF End(chunk) = iter.address
    THEN [merged |-> TRUE,
          iter |-> Chunk(chunk.address, iter.size + chunk.size)]
    ELSE [merged |-> FALSE, iter |-> iter]

\* std::list::insert(iter, chunk): chunk goes before position i
insert(list, i, chunk) == SubSeq(list, 1, i - 1) \o <<chunk>> \o SubSeq(list, i, Len(list))

\* std::list::erase(iter)
erase(list, i) == SubSeq(list, 1, i - 1) \o SubSeq(list, i + 1, Len(list))

push_front(list, chunk) == <<chunk>> \o list

\* lines 212-217: merge the chunk at position i into the following one
mergeFollowing(list, i) ==
    IF i + 1 <= Len(list)
    THEN LET m == checkMergeChunk(list[i], list[i + 1])
         IN  IF m.merged THEN erase([list EXCEPT ![i + 1] = m.iter], i) ELSE list
    ELSE list

RECURSIVE addChunk(_, _, _, _)
\* the for loop of lines 195-220 from position i on, then lines 221-223
addChunk(list, chunk, i, overlapping) ==
    IF i > Len(list)
    THEN [chunks |-> push_front(list, chunk), numOverlapping |-> overlapping]
    ELSE LET iter == list[i]
             counted == IF overlaps(iter, chunk) THEN overlapping + 1 ELSE overlapping
             m == checkMergeChunk(chunk, iter)
         IN  IF m.merged
             THEN [chunks |-> mergeFollowing([list EXCEPT ![i] = m.iter], i),
                   numOverlapping |-> counted]
             ELSE IF ~less(chunk.address, iter.address)
             THEN [chunks |-> mergeFollowing(insert(list, i, chunk), i),
                   numOverlapping |-> counted]
             ELSE addChunk(list, chunk, i + 1, counted)

max(a, b) == IF a < b THEN b ELSE a

\* report with the multiple-start test at one start address already
reportMultipleFromOne(eofSeen, nStart, start, nData, maxSize, overlapping, list) ==
    [missingEof |-> ~eofSeen,
     multipleStart |-> nStart > 0,
     startAddress |-> IF nStart = 1 THEN <<start>> ELSE <<>>,
     numDataRecords |-> nData,
     maxDataSize |-> maxSize,
     numSegments |-> Len(list),
     numOverlapping |-> overlapping,
     segments |-> [i \in 1..Len(list) |-> list[Len(list) + 1 - i]]]

\* the seven-line report of lines 238-255, as the values it prints
report(eofSeen, nStart, start, nData, maxSize, overlapping, list) ==
    [missingEof |-> ~eofSeen,
     multipleStart |-> nStart > 1,
     startAddress |-> IF nStart = 1 THEN <<start>> ELSE <<>>,
     numDataRecords |-> nData,
     maxDataSize |-> maxSize,
     numSegments |-> Len(list),
     numOverlapping |-> overlapping,
     segments |-> [i \in 1..Len(list) |-> list[Len(list) + 1 - i]]]

\* ------------------------------------------------------------ input lines
\* The text of a record: ':' count address type payload checksum, two hex
\* digits a byte.  skew is added to the correct checksum (0 leaves it right).
HexDigits == DecDigits \o UpDigits

Hex2(n) == <<HexDigits[(n \div 16) + 1], HexDigits[(n % 16) + 1]>>

Hex4(n) == Hex2(n \div Byte) \o Hex2(n % Byte)

RECURSIVE HexBytes(_)
HexBytes(bytes) ==
    IF bytes = <<>> THEN <<>> ELSE Hex2(Head(bytes)) \o HexBytes(Tail(bytes))

RECURSIVE SumBytes(_)
SumBytes(bytes) ==
    IF bytes = <<>> THEN 0 ELSE Head(bytes) + SumBytes(Tail(bytes))

Record(count, addr, type, payload, skew) ==
    LET fields == <<count, addr \div Byte, addr % Byte, type>> \o payload
    IN  <<":">> \o HexBytes(fields)
               \o Hex2((Byte - (SumBytes(fields) % Byte) + skew) % Byte)

DataRecord(addr, size) ==
    Record(size, addr, typeData, [i \in 1..size |-> (addr + 16 * i) % Byte], 0)

LowerCase(line) == [i \in 1..Len(line) |-> tolower(line[i])]

EofLine == Record(0, 0, typeEof, <<>>, 0)

\* The chunks of the data records the chunk streams are made of, as
\* <<raw address, size>>: apart, touching, overlapping, contained, bridging.
PlainChunks ==
    {<<0, 4>>, <<4, 4>>, <<0, 8>>, <<10, 4>>, <<4, 6>>, <<14, 2>>, <<6, 4>>,
     <<5, 2>>, <<2, 2>>}

ChunkLines == {DataRecord(c[1], c[2]) : c \in PlainChunks}

\* The data streams add an empty record, a record that runs past the top of
\* the address space under base 0xFFFF0000, and the two base-address records.
EdgeChunks == {<<5, 0>>, <<65534, 4>>}

BaseLines ==
    {Record(2, 0, typeEla, <<255, 255>>, 0), Record(2, 0, typeEla, <<0, 0>>, 0)}

DataLines ==
    ChunkLines \cup {DataRecord(c[1], c[2]) : c \in EdgeChunks} \cup BaseLines

\* Lines of every record type, well and ill formed.
GoodLines ==
    {DataRecord(0, 4), DataRecord(4, 4), LowerCase(DataRecord(10, 4)), EofLine,
     Record(2, 0, typeEsa, <<18, 52>>, 0),
     Record(4, 0, typeSsa, <<18, 52, 86, 120>>, 0),
     Record(2, 0, typeEla, <<0, 1>>, 0),
     Record(4, 0, typeSla, <<8, 0, 1, 1>>, 0)}

BadLines ==
    {<<>>,
     <<"h", "e", "l", "l", "o">>,
     [EofLine EXCEPT ![1] = ";"],
     [DataRecord(0, 4) EXCEPT ![12] = "G"],
     Record(2, 0, typeData, <<1>>, 0),
     Record(4, 0, typeData, <<1, 2, 3, 4>>, 4),
     Record(0, 0, 6, <<>>, 0),
     Record(0, 0, 6, <<>>, 7),
     Record(1, 0, typeEof, <<0>>, 0),
     Record(1, 0, typeEof, <<0>>, 255),
     Record(3, 0, typeEla, <<0, 1, 2>>, 128)}

\* a line of n characters: ':', a byte count of FF, then zeros
Padded(n) == [i \in 1..n |-> IF i = 1 THEN ":" ELSE IF i \in {2, 3} THEN "F" ELSE "0"]

\* Lines whose length is below minLineSize, above maxLineSize, or not the
\* 11 + 2N of their byte count.
FramingLines ==
    {Padded(maxLineSize + 1),
     Padded(maxLineSize + 2),
     SubSeq(EofLine, 1, 10),
     EofLine \o <<"0">>,
     Record(1, 0, typeData, <<1, 2>>, 0),
     [EofLine EXCEPT ![2] = "G"]}

\* Records with a correct checksum whose payload size is not the one their
\* type takes, or whose type is none of the six.
SizeLines ==
    {Record(1, 0, typeEsa, <<18>>, 0),
     Record(3, 0, typeEsa, <<0, 18, 52>>, 0),
     Record(2, 0, typeSsa, <<18, 52>>, 0),
     Record(0, 0, typeEla, <<>>, 0),
     Record(3, 0, typeEla, <<0, 1, 2>>, 0),
     Record(5, 0, typeSla, <<8, 0, 1, 1, 0>>, 0),
     Record(2, 0, 7, <<0, 1>>, 0),
     Record(0, 0, 255, <<>>, 0)}

Lines == GoodLines \cup BadLines \cup FramingLines \cup SizeLines

AllLines == Lines \cup DataLines

\* parseLine of every line of the input alphabet, computed once
parsed == [line \in AllLines |-> parseLine(line)]

\* spansTaken of every line of the input alphabet, computed once
spans == [line \in AllLines |-> spansTaken(line)]

\* ------------------------------------------------------------------- state
VARIABLES
    chunks,             \* std::list<Chunk>, front first
    numOverlapping,
    baseAddress,
    foundEof,
    numStartAddresses,
    startAddress,
    numDataRecords,
    maxDataSize,
    stLine,             \* the line getline delivered last
    iLine,
    status,             \* "reading", "failed" (exception left processHexFile), "done"
    error,              \* <<>> or <<[what, line, text]>>: the rethrown exception
    summary,            \* <<>> or <<report>>: what was printed after the loop
    nRead,              \* history: number of lines getline delivered
    accepted            \* history: the chunks of the data records accepted, in order

vars == <<chunks, numOverlapping, baseAddress, foundEof, numStartAddresses,
          startAddress, numDataRecords, maxDataSize, stLine, iLine, status,
          error, summary, nRead, accepted>>

session == <<chunks, numOverlapping, baseAddress, foundEof, numStartAddresses,
             startAddress, numDataRecords, maxDataSize>>

Init ==
    /\ chunks = <<>>
    /\ numOverlapping = 0
    /\ baseAddress = toWord(0)
    /\ foundEof = FALSE
    /\ numStartAddresses = 0
    /\ startAddress = toWord(0)
    /\ numDataRecords = 0
    /\ maxDataSize = 0
    /\ stLine = <<>>
    /\ iLine = 1
    /\ status = "reading"
    /\ error = <<>>
    /\ summary = <<>>
    /\ nRead = 0
    /\ accepted = <<>>

\* lineError without the test of foundEof
lineErrorIgnoringEof(rec, eofSeen) == rec.err

\* lineError with a wrong checksum passed over: the line is skipped and
\* reading goes on
lineErrorSkippingChecksum(rec, eofSeen) ==
    IF eofSeen THEN SequenceError
    ELSE IF rec.err = ChecksumError THEN "" ELSE rec.err

\* lines 135-137 before the rest of the loop body: the message of the
\* exception the body throws on a line parseLine decoded as rec, "" if none
lineError(rec, eofSeen) == IF eofSeen THEN SequenceError ELSE rec.err

\* rethrow with the line counted from 0
rethrowZeroBased(what, line, text) ==
    [what |-> what, line |-> line - 1, text |-> makePrintable(text)]

\* the catch block of lines 233-237
rethrow(what, line, text) == [what |-> what, line |-> line, text |-> makePrintable(text)]

\* dataCase with the break of line 186 missing: a linear start address
\* record runs on into the data case
dataCaseAfterSla(recordType) == recordType \in {typeSla, typeData}

\* the switch reaches the statements of case typeData (lines 187-226)
dataCase(recordType) == recordType = typeData

\* One iteration of the while loop: getline delivers line, the body runs to
\* ++iLine or to the exception that leaves processHexFile.
ReadLine(line) ==
    /\ status = "reading"
    /\ nRead < MaxLines
    /\ nRead' = nRead + 1
    /\ stLine' = line
    /\ summary' = summary
    /\ \E rec \in {parsed[line]} :
       \E message \in {lineError(rec, foundEof)} :
           IF message # ""
           THEN /\ status' = "failed"
                /\ error' = <<rethrow(message, iLine, line)>>
                /\ UNCHANGED <<session, iLine, accepted>>
           ELSE /\ status' = status
                /\ error' = error
                /\ iLine' = iLine + 1
                /\ foundEof' = IF rec.recordType = typeEof THEN TRUE ELSE foundEof
                /\ baseAddress' =
                       IF rec.recordType \in {typeEsa, typeEla}
                       THEN rec.base ELSE baseAddress
                /\ startAddress' =
                       IF rec.recordType \in {typeSsa, typeSla}
                       THEN rec.start ELSE startAddress
                /\ numStartAddresses' =
                       IF rec.recordType \in {typeSsa, typeSla}
                       THEN numStartAddresses + 1 ELSE numStartAddresses
                /\ IF dataCase(rec.recordType)
                   THEN \E chunk \in {Chunk(plusWord(baseAddress, rec.address), rec.dataSize)} :
                        \E added \in {addChunk(chunks, chunk, 1, numOverlapping)} :
                            /\ chunks' = added.chunks
                            /\ numOverlapping' = added.numOverlapping
                            /\ numDataRecords' = numDataRecords + 1
                            /\ maxDataSize' = max(maxDataSize, rec.dataSize)
                            /\ accepted' = Append(accepted, chunk)
                   ELSE UNCHANGED <<chunks, numOverlapping, numDataRecords,
                                    maxDataSize, accepted>>

\* getline finds the end of the input: the loop ends and the report is printed
EndOfStream ==
    /\ status = "reading"
    /\ status' = "done"
    /\ summary' = <<report(foundEof, numStartAddresses, startAddress, numDataRecords,
                           maxDataSize, numOverlapping, chunks)>>
    /\ UNCHANGED <<session, stLine, iLine, error, nRead, accepted>>

\* getline fails without reaching the end of the input (lines 230-232); the
\* string it leaves behind is the partial line or empty
ReadFailure ==
    /\ status = "reading"
    /\ status' = "failed"
    /\ \E text \in {<<>>, stLine} :
           /\ stLine' = text
           /\ error' = <<rethrow(FileError, iLine, text)>>
    /\ UNCHANGED <<session, iLine, summary, nRead, accepted>>

\* ------------------------------------------------------------ specifications
Next ==
    \/ \E line \in Lines : ReadLine(line)
    \/ EndOfStream
    \/ ReadFailure

Spec == Init /\ [][Next]_vars

NextData ==
    \/ \E line \in DataLines : ReadLine(line)
    \/ EndOfStream

SpecData == Init /\ [][NextData]_vars

NextChunks ==
    \/ \E line \in ChunkLines : ReadLine(line)
    \/ EndOfStream

SpecChunks == Init /\ [][NextChunks]_vars

\* ------------------------------------------------------------------ claims
\* What the claims speak of, stated apart from the code's own tests.

\* the addresses a chunk covers, in the 32-bit address space
Bytes(c) == {plus(c.address, k) : k \in 0..(c.size - 1)}

\* one's address + size equals the other's address
Touch(a, b) == plus(a.address, a.size) = b.address \/ plus(b.address, b.size) = a.address

\* existing.address + existing.size > new.address and
\* new.address + new.size > existing.address
Overlap(existing, new) ==
    /\ less(new.address, plus(existing.address, existing.size))
    /\ less(existing.address, plus(new.address, new.size))

Covered == UNION {Bytes(accepted[i]) : i \in 1..Len(accepted)}

\* the number of maximal contiguous runs of covered addresses
Regions == Cardinality({x \in Covered : plus(x, -1) \notin Covered})

\* the data record this step accepted, where it accepted one
DataStep == Len(accepted') = Len(accepted) + 1

NewChunk == accepted'[Len(accepted')]

\* C1: after any sequence of accepted data records no two chunks of the
\* collection touch or overlap, and the number of chunks is the number of
\* maximal contiguous address regions the data records cover.
C1_ChunksAreRegions ==
    /\ \A i, j \in 1..Len(chunks) :
           i # j => ~Touch(chunks[i], chunks[j]) /\ ~Overlap(chunks[i], chunks[j])
    /\ Len(chunks) = Regions

\* C2: the list is in descending address order front to back after every
\* insertion, and the report lists the chunks by strictly increasing address.
C2_AscendingReport ==
    /\ \A i, j \in 1..Len(chunks) :
           i < j => ~less(chunks[i].address, chunks[j].address)
    /\ status = "done" =>
           \A i, j \in 1..Len(summary[1].segments) :
               i < j => less(summary[1].segments[i].address, summary[1].segments[j].address)

Orders(n) == {p \in [1..n -> 1..n] : \A i, j \in 1..n : p[i] = p[j] => i = j}

RECURSIVE Accumulate(_, _)
\* the collection after the first k chunks of seq arrived in that order
Accumulate(seq, k) ==
    IF k = 0 THEN <<>> ELSE addChunk(Accumulate(seq, k - 1), seq[k], 1, 0).chunks

\* C3: every arrival order of the data chunks accepted so far leaves the
\* collection with the same set of {address, size} elements.
C3_OrderIndependent ==
    \A p \in Orders(Len(accepted)) :
        Range(Accumulate([i \in 1..Len(accepted) |-> accepted[p[i]]], Len(accepted)))
            = Range(chunks)

\* C4: a data record raises the overlap counter by the number of chunks in
\* the collection that overlap its chunk, wherever in the list they sit.
C4_CountsEveryOverlap ==
    [][DataStep =>
           numOverlapping' = numOverlapping
               + Cardinality({i \in 1..Len(chunks) : Overlap(chunks[i], NewChunk)})]_vars

\* C5: a data chunk whose range lies within an existing chunk leaves the
\* collection as it was and raises the overlap count by 1.
C5_ContainedChunkAbsorbed ==
    [][(/\ DataStep
        /\ NewChunk.size > 0
        /\ \E i \in 1..Len(chunks) : Bytes(NewChunk) \subseteq Bytes(chunks[i]))
       => chunks' = chunks /\ numOverlapping' = numOverlapping + 1]_vars

\* C6: a data chunk that touches existing chunks and overlaps none is, after
\* its insertion, part of one chunk that covers it and every chunk it
\* touched, and the overlap count is unchanged.
C6_TouchingChunksMerged ==
    [][(/\ DataStep
        /\ \E i \in 1..Len(chunks) : Touch(chunks[i], NewChunk)
        /\ \A i \in 1..Len(chunks) : ~Overlap(chunks[i], NewChunk))
       => /\ \E k \in 1..Len(chunks') :
                 /\ Bytes(NewChunk) \subseteq Bytes(chunks'[k])
                 /\ \A i \in 1..Len(chunks) :
                        Touch(chunks[i], NewChunk) => Bytes(chunks[i]) \subseteq Bytes(chunks'[k])
          /\ numOverlapping' = numOverlapping]_vars

Separate(a, b) == ~Touch(a, b) /\ ~Overlap(a, b)

AllSeparate == \A i, j \in 1..Len(accepted) : i # j => Separate(accepted[i], accepted[j])

\* C7: while the data records' ranges are pairwise neither overlapping nor
\* adjacent (ranges taken in the 32-bit address space, whatever the arrival
\* order), the chunk count is the number of data records and the overlap
\* count is 0, in the collection and in the report at the end of the stream.
C7_SeparateRecordsCount ==
    AllSeparate =>
        /\ Len(chunks) = Len(accepted)
        /\ numDataRecords = Len(accepted)
        /\ numOverlapping = 0
        /\ status = "done" =>
               /\ summary[1].numSegments = summary[1].numDataRecords
               /\ summary[1].numOverlapping = 0

\* three separate records, the second below the first, reported at the end
C7_Witness ==
    /\ status = "done"
    /\ Len(accepted) = 3
    /\ AllSeparate
    /\ less(accepted[2].address, accepted[1].address)
    /\ summary[1].numSegments = 3

\* C8: once an EndOfFile record is accepted the session state never changes
\* again, at most one more line is read, and that line, whatever its text,
\* fails with the sequence error at the current line number.
C8_NothingAfterEof ==
    /\ [](foundEof => nRead <= iLine)
    /\ [][foundEof =>
              /\ session' = session
              /\ nRead' = nRead + 1 =>
                     /\ status' = "failed"
                     /\ error'[1].what = SequenceError
                     /\ error'[1].line = iLine]_vars

\* an ill-formed line read after the EndOfFile record
C8_Witness ==
    /\ foundEof
    /\ status = "failed"
    /\ stLine \in BadLines
    /\ error[1].what = SequenceError

\* C9: when the k-th line read is rejected the error carries line number k,
\* and the line counter is the number of lines accepted so far plus one.
C9_ErrorLineNumber ==
    IF status = "failed" /\ error[1].what # FileError
    THEN error[1].line = nRead /\ iLine = nRead
    ELSE iLine = nRead + 1

\* a checksum error on the third line
C9_Witness ==
    /\ status = "failed"
    /\ error[1].what = ChecksumError
    /\ error[1].line = 3
    /\ nRead = 3

\* the value of a hex digit, either case
Nibble(c) == CHOOSE v \in 0..15 : c \in {HexDigits[v + 1], LowerCase(HexDigits)[v + 1]}

\* the k-th byte after the ':'
ByteOf(line, k) == 16 * Nibble(line[2 * k]) + Nibble(line[2 * k + 1])

\* leading ':', hex digits only, length 11 + 2N
WellFramed(line) ==
    /\ Len(line) >= 11
    /\ line[1] = ":"
    /\ \A i \in 2..Len(line) : line[i] \in Range(HexDigits) \cup Range(LowerCase(HexDigits))
    /\ Len(line) = 11 + 2 * ByteOf(line, 1)

RECURSIVE SumOfBytes(_, _)
SumOfBytes(line, k) == IF k = 0 THEN 0 ELSE SumOfBytes(line, k - 1) + ByteOf(line, k)

\* framing and byte sum (count field through checksum byte) of every line
lineFacts ==
    [line \in AllLines |->
        [framed |-> WellFramed(line),
         sum |-> IF WellFramed(line)
                 THEN SumOfBytes(line, (Len(line) - 1) \div 2) % Byte ELSE 0]]

\* C10: a well-framed line that reaches the parser is rejected with the
\* checksum error, and no state changed, exactly when the sum modulo 256 of
\* its bytes from the count field through the checksum byte is not 0,
\* whatever its record type and payload size.
C10_ChecksumBeforeType ==
    [][(nRead' = nRead + 1 /\ ~foundEof /\ lineFacts[stLine'].framed) =>
           IF lineFacts[stLine'].sum # 0
           THEN /\ status' = "failed"
                /\ error'[1].what = ChecksumError
                /\ session' = session
           ELSE ~(status' = "failed" /\ error'[1].what = ChecksumError)]_vars

\* a bad checksum reported on a record of unknown type
C10_Witness ==
    /\ status = "failed"
    /\ stLine = Record(0, 0, 6, <<>>, 7)
    /\ error[1].what = ChecksumError

\* the length is below 11, above 521, or not 11 + 2N for the byte count N
\* its count field spells
BadLength(line) ==
    \/ Len(line) < 11
    \/ Len(line) > 521
    \/ /\ {line[2], line[3]} \subseteq Range(HexDigits) \cup Range(LowerCase(HexDigits))
       /\ Len(line) # 11 + 2 * ByteOf(line, 1)

badLength == [line \in AllLines |-> BadLength(line)]

\* C11: a line that reaches the parser with a length below 11, above 521 or
\* other than 11 + 2N is rejected with the format error and changes no
\* state, and every subspan taken of any line lies within the line.
C11_LengthCheckedBeforeFields ==
    [][(nRead' = nRead + 1 /\ ~foundEof) =>
           /\ badLength[stLine'] =>
                  /\ status' = "failed"
                  /\ error'[1].what = FormatError
                  /\ session' = session
           /\ \A sp \in spans[stLine'] : sp.offset + sp.count <= Len(stLine')]_vars

\* a line with byte count 02 and one payload byte, rejected after its count
\* field alone was read
C11_Witness ==
    /\ status = "failed"
    /\ stLine = Record(2, 0, typeData, <<1>>, 0)
    /\ error[1].what = FormatError
    /\ spans[stLine] = {Span(1, 2, TRUE)}

\* the fields a well-framed line spells: byte count, 16-bit address field,
\* record type and payload bytes
FieldsOf(line) ==
    [count |-> ByteOf(line, 1),
     raw |-> Byte * ByteOf(line, 2) + ByteOf(line, 3),
     type |-> ByteOf(line, 4),
     payload |-> [k \in 1..ByteOf(line, 1) |-> ByteOf(line, 4 + k)]]

\* the fields of every well-framed line with a correct checksum
fields ==
    [line \in {l \in AllLines : lineFacts[l].framed /\ lineFacts[l].sum = 0} |->
        FieldsOf(line)]

\* the payload size is not the one the record type takes, or the type is
\* none of 0..5
WrongSize(f) ==
    \/ f.type \notin 0..5
    \/ f.type = 1 /\ f.count # 0
    \/ f.type \in {2, 4} /\ f.count # 2
    \/ f.type \in {3, 5} /\ f.count # 4

\* C12: a record with a correct checksum that reaches the parser is rejected
\* with the format error, and no state changed, when its payload size is
\* wrong for its type or its type is not 0..5; the base address, the start
\* address state and the EndOfFile flag change only on a record of type 1..5
\* with a correct checksum and the size of its type.
C12_SizeCheckedPerType ==
    [][(nRead' = nRead + 1 /\ ~foundEof) =>
           /\ (stLine' \in DOMAIN fields /\ WrongSize(fields[stLine'])) =>
                  /\ status' = "failed"
                  /\ error'[1].what = FormatError
                  /\ session' = session
           /\ <<baseAddress, startAddress, numStartAddresses, foundEof>>'
                  # <<baseAddress, startAddress, numStartAddresses, foundEof>> =>
                  /\ stLine' \in DOMAIN fields
                  /\ fields[stLine'].type \in 1..5
                  /\ ~WrongSize(fields[stLine'])]_vars

\* a linear start address record of five bytes with a correct checksum,
\* rejected after a base address was set, which is kept
C12_Witness ==
    /\ status = "failed"
    /\ stLine = Record(5, 0, typeSla, <<8, 0, 1, 1, 0>>, 0)
    /\ error[1].what = FormatError
    /\ baseAddress = toWord(74560)

\* a line was read and accepted in this step
Accepts == nRead' = nRead + 1 /\ status' = "reading"

\* the 16-bit number the first two payload bytes spell
Payload16(f) == Byte * f.payload[1] + f.payload[2]

\* base + raw as a 32-bit number in two halves
Effective(base, raw) ==
    <<(base[1] + ((base[2] + raw) \div 65536)) % 65536, (base[2] + raw) % 65536>>

\* C13: the base address is 0 at first; an accepted segment record sets it to
\* its 16-bit payload times 16 and an accepted linear record to its payload
\* times 65536, whatever it was before; no other record changes it; a data
\* record's chunk starts at the base plus the record's 16-bit address field;
\* and a base address record leaves the recorded chunks as they are.
C13_BaseReplacedNotAdded ==
    /\ baseAddress = <<0, 0>>
    /\ [][Accepts =>
              LET f == fields[stLine']
              IN  /\ f.type = 2 =>
                         /\ baseAddress' = <<(Payload16(f) * 16) \div 65536,
                                             (Payload16(f) * 16) % 65536>>
                         /\ chunks' = chunks
                  /\ f.type = 4 =>
                         /\ baseAddress' = <<Payload16(f), 0>>
                         /\ chunks' = chunks
                  /\ f.type \notin {2, 4} => baseAddress' = baseAddress
                  /\ f.type = 0 =>
                         /\ DataStep
                         /\ NewChunk.address = Effective(baseAddress, f.raw)]_vars

\* a segment record (base 0x12340), then a linear record (base 0x10000, not
\* 0x22340), then a data record at address field 4
C13_Witness ==
    /\ status = "reading"
    /\ baseAddress = <<1, 0>>
    /\ iLine = 4
    /\ stLine = DataRecord(4, 4)
    /\ chunks = <<Chunk(<<1, 4>>, 4)>>

\* the 32-bit number, in two halves, a start address record's payload gives:
\* first 16 bits times 16 plus second 16 bits for the segment form, all 32
\* bits for the linear form
StartOf(f) ==
    LET first == Byte * f.payload[1] + f.payload[2]
        second == Byte * f.payload[3] + f.payload[4]
    IN  IF f.type = 3
        THEN <<(first * 16 + second) \div 65536, (first * 16 + second) % 65536>>
        ELSE <<first, second>>

\* C14: the start address counter is 0 at first and goes up by one on every
\* accepted start address record, segment or linear, and on nothing else; the
\* summary reports multiple start addresses exactly when it is 2 or more;
\* when it is 1 the summary gives the start address the record spells.
C14_StartAddressCount ==
    /\ numStartAddresses = 0
    /\ [][/\ Accepts =>
                 LET f == fields[stLine']
                 IN  IF f.type \in {3, 5}
                     THEN /\ numStartAddresses' = numStartAddresses + 1
                          /\ startAddress' = StartOf(f)
                     ELSE UNCHANGED <<numStartAddresses, startAddress>>
          /\ ~Accepts => UNCHANGED <<numStartAddresses, startAddress>>
          /\ status' = "done" =>
                 /\ summary'[1].multipleStart = (numStartAddresses >= 2)
                 /\ summary'[1].startAddress =
                        IF numStartAddresses = 1 THEN <<startAddress>> ELSE <<>>]_vars

\* one segment start address record 1234:5678, reported as 0x179B8
C14_Witness ==
    /\ status = "done"
    /\ numStartAddresses = 1
    /\ ~summary[1].multipleStart
    /\ summary[1].startAddress = << <<1, 31160>> >>

\* a segment and a linear start address record, reported as multiple
C14_WitnessMultiple ==
    /\ status = "done"
    /\ numStartAddresses = 2
    /\ summary[1].multipleStart
    /\ summary[1].startAddress = <<>>

\* a well-framed line with a correct checksum, one of the six types and the
\* payload size of its type
Acceptable(line) == line \in DOMAIN fields /\ ~WrongSize(fields[line])

acceptable == [line \in AllLines |-> Acceptable(line)]

\* C15: a line that is not acceptable, or that follows the EndOfFile record,
\* ends the run in failure with no summary, and nothing is read after it; an
\* acceptable line is counted and reading goes on; a summary exists exactly
\* when the run is done, which is when every line read was accepted and the
\* stream ended cleanly; its only mark for a missing EndOfFile record is the
\* missing-EOF warning.
C15_FailStop ==
    /\ [](/\ (summary # <<>>) = (status = "done")
          /\ (error # <<>>) = (status = "failed")
          /\ status = "done" => /\ iLine = nRead + 1
                                /\ summary[1].missingEof = ~foundEof)
    /\ [][/\ status = "reading"
          /\ nRead' = nRead + 1 =>
                IF acceptable[stLine'] /\ ~foundEof
                THEN status' = "reading" /\ iLine' = iLine + 1
                ELSE status' = "failed" /\ iLine' = iLine /\ session' = session
          /\ status' = "done" => nRead' = nRead /\ session' = session]_vars

\* a data record was accepted, the second line was rejected: the run ended
\* without a summary
C15_Witness ==
    /\ status = "failed"
    /\ nRead = 2
    /\ iLine = 2
    /\ numDataRecords = 1
    /\ summary = <<>>

\* the stream ended cleanly after two data records and no EndOfFile record
C15_WitnessMissingEof ==
    /\ status = "done"
    /\ nRead = 2
    /\ numDataRecords = 2
    /\ summary[1].missingEof
    /\ ~summary[1].multipleStart

\* C16: an accepted EndOfFile record sets the EndOfFile flag and leaves the
\* chunks, the overlap count, the data record count, the largest data size,
\* the base address and the start address state as they were; the chunks, the
\* overlap count, the data record count and the largest data size change
\* only on an accepted data record.
C16_EofChangesOnlyFlag ==
    [][/\ (Accepts /\ fields[stLine'].type = 1) =>
              /\ foundEof'
              /\ UNCHANGED <<chunks, numOverlapping, numDataRecords, maxDataSize,
                             baseAddress, startAddress, numStartAddresses>>
       /\ <<chunks, numOverlapping, numDataRecords, maxDataSize>>'
              # <<chunks, numOverlapping, numDataRecords, maxDataSize>> =>
              Accepts /\ fields[stLine'].type = 0]_vars

\* an EndOfFile record accepted after a data record, a segment base record
\* and a start address record, all of whose traces are kept
C16_Witness ==
    /\ status = "reading"
    /\ stLine = EofLine
    /\ foundEof
    /\ numDataRecords = 1
    /\ Len(chunks) = 1
    /\ baseAddress = toWord(74560)
    /\ numStartAddresses = 1

\* C17: every chunk of the collection covers at least one byte, also after a
\* data record with byte count 00.
C17_NoEmptyChunk == \A i \in 1..Len(chunks) : chunks[i].size > 0

RECURSIVE SumSizes(_)
\* the sum of the sizes of a sequence of chunks
SumSizes(list) == IF list = <<>> THEN 0 ELSE Head(list).size + SumSizes(Tail(list))

\* C18: the sizes of the chunks add up to the payload sizes of the accepted
\* data records, every accepted data record adding its byte count to the
\* sum, and every accepted data record changes the number of chunks by +1,
\* 0 or -1.
C18_SizesConserved ==
    /\ [](SumSizes(chunks) = SumSizes(accepted))
    /\ [][(Accepts /\ fields[stLine'].type = 0) =>
              /\ SumSizes(chunks') = SumSizes(chunks) + fields[stLine'].count
              /\ Len(chunks') - Len(chunks) \in {-1, 0, 1}]_vars

\* records {0,4}, {10,4}, {4,6}: the third joins the two chunks into one of
\* 14 bytes, one chunk fewer
C18_Witness ==
    /\ accepted = <<Chunk(<<0, 0>>, 4), Chunk(<<0, 10>>, 4), Chunk(<<0, 4>>, 6)>>
    /\ chunks = <<Chunk(<<0, 0>>, 14)>>

\* address + size is below 2^32 (sizes are below 65536)
NoWrap(c) == c.address[1] < 65535 \/ c.address[2] + c.size < 65536

\* C19: address + size stays within the 32-bit range for every chunk of the
\* collection and every data record's chunk, so that no chunk at the top of
\* the address space reaches round to the addresses near 0.
C19_EndNeverWraps ==
    /\ \A i \in 1..Len(accepted) : NoWrap(accepted[i])
    /\ \A i \in 1..Len(chunks) : NoWrap(chunks[i])

\* C20: no run fails with "Number too large": every subspan handed to fromHex
\* is 2, 4 or 8 characters long, and a failed run carries the format, the
\* checksum, the after-EndOfFile or the stream error.
C20_NoOverflowError ==
    /\ \A sp \in spans[stLine] : sp.hex => sp.count \in {2, 4, 8}
    /\ status = "failed" =>
           error[1].what \in {FormatError, ChecksumError, SequenceError, FileError}

\* a linear start address record, whose 8 payload characters are the longest
\* run handed to fromHex, accepted as 0x08000101
C20_Witness ==
    /\ status = "reading"
    /\ stLine = Record(4, 0, typeSla, <<8, 0, 1, 1>>, 0)
    /\ Span(dataOffset, 8, TRUE) \in spans[stLine]
    /\ numStartAddresses = 1
    /\ startAddress = <<2048, 257>>

====
